---- MODULE Spec2Model ----
(***************************************************************************)
(* A model of the pico asset-upload adapter (filehandlers/assets) and of   *)
(* the `command ls` middleware (wish/list).                                *)
(*                                                                         *)
(* Strings are sequences of one-character strings; a value cached in the   *)
(* ssh context is a set: {} when the key was never set (Value() returns a  *)
(* nil interface), {v} when SetValue stored v.                             *)
(***************************************************************************)
EXTENDS Integers, Sequences, FiniteSets, TLC

\* ------------------------------------------------------------------ bounds

\* longest file name the storage backend lists
MaxNameLen == 2
\* most entries the storage backend lists
MaxFiles == 2
\* commands (Validate, List, Read, Write, an ssh command) one client issues
MaxCalls == 3
\* commands two concurrent clients issue between them
MaxCallsTwo == 4

\* ----------------------------------------------------------------- strings

\* byte value of a character: the order sort.Strings compares by
CharCode(c) ==
    CASE c = "." -> 46
      [] c = "/" -> 47
      [] c = "a" -> 97
      [] c = "b" -> 98
      [] c = "x" -> 120
      [] c = "y" -> 121

RECURSIVE StrLess(_, _)
\* Go's < on strings: bytewise lexicographic, a proper prefix is smaller
StrLess(a, b) ==
    IF b = <<>> THEN FALSE
    ELSE IF a = <<>> THEN TRUE
    ELSE IF Head(a) = Head(b) THEN StrLess(Tail(a), Tail(b))
    ELSE CharCode(Head(a)) < CharCode(Head(b))

\* strings.HasPrefix
HasPrefix(s, p) == Len(p) <= Len(s) /\ SubSeq(s, 1, Len(p)) = p

RECURSIVE ReplaceN(_, _, _)
\* strings.Replace(s, old, "", n) for a non-empty old; n < 0 replaces all
ReplaceN(s, old, n) ==
    IF n = 0 \/ Len(s) < Len(old) THEN s
    ELSE IF HasPrefix(s, old)
         THEN ReplaceN(SubSeq(s, Len(old) + 1, Len(s)), old, n - 1)
         ELSE <<Head(s)>> \o ReplaceN(Tail(s), old, n)

\* strings.ReplaceAll(s, "/", "")
StripSlashes(s) == ReplaceN(s, <<"/">>, -1)

RECURSIVE Join(_, _)
\* strings.Join(data, sep)
Join(data, sep) ==
    IF data = <<>> THEN <<>>
    ELSE IF Len(data) = 1 THEN data[1]
    ELSE data[1] \o sep \o Join(Tail(data), sep)

RECURSIVE Insert(_, _)
Insert(x, sorted) ==
    IF sorted = <<>> THEN <<x>>
    ELSE IF StrLess(x, Head(sorted)) THEN <<x>> \o sorted
    ELSE <<Head(sorted)>> \o Insert(x, Tail(sorted))

RECURSIVE SortStrings(_)
\* sort.Strings: the elements in ascending order
SortStrings(data) ==
    IF data = <<>> THEN <<>>
    ELSE Insert(Head(data), SortStrings(Tail(data)))

\* list.go lines 35-38 without the ReplaceAll
NormalizeNameKeepSlashes(file) ==
    IF file.IsDir THEN file.Name \o <<"/">> ELSE file.Name

\* list.go lines 35-38: the line written for one listed file
NormalizeName(file) ==
    IF file.IsDir THEN StripSlashes(file.Name) \o <<"/">>
    ELSE StripSlashes(file.Name)


\* ------------------------------------------------------------------- paths

Slash == <<"/">>

RECURSIVE TrimTrailingSlashes(_)
TrimTrailingSlashes(p) ==
    IF p # <<>> /\ p[Len(p)] = "/" THEN TrimTrailingSlashes(SubSeq(p, 1, Len(p) - 1))
    ELSE p

RECURSIVE LastElement(_)
\* the part of p after its last "/"
LastElement(p) ==
    IF p = <<>> \/ p[Len(p)] = "/" THEN <<>>
    ELSE LastElement(SubSeq(p, 1, Len(p) - 1)) \o <<p[Len(p)]>>

\* path/filepath.Base: "" gives ".", a path of separators only gives "/"
Base(p) ==
    IF p = <<>> THEN <<".">>
    ELSE IF TrimTrailingSlashes(p) = <<>> THEN Slash
    ELSE LastElement(TrimTrailingSlashes(p))

RECURSIVE UpToSlash(_)
UpToSlash(p) ==
    IF p = <<>> \/ Head(p) = "/" THEN <<>>
    ELSE <<Head(p)>> \o UpToSlash(Tail(p))

\* shared.GetProjectName: the first segment of the entry's path
GetProjectName(path) ==
    IF path # <<>> /\ Head(path) = "/" THEN UpToSlash(Tail(path)) ELSE UpToSlash(path)

\* shared.GetAssetFileName: the object key of an entry, a function of its path
GetAssetFileName(path) == path

\* shared.GetAssetBucketName: the bucket of an identity, a function of its ID
GetAssetBucketName(id) == <<"static", id>>

\* Cfg.AssetURL: the public URL of (identity name, project, relative path)
AssetURL(name, project, rel) == <<name, project, rel>>

\* Write lines 234-238 with every occurrence of "/<project>/" removed
WriteURLReplaceAll(userName, projectName, filepath) ==
    AssetURL(userName, projectName, ReplaceN(filepath, Slash \o projectName \o Slash, -1))

\* Write lines 234-238: the URL of a stored entry
WriteURL(userName, projectName, filepath) ==
    AssetURL(userName, projectName, ReplaceN(filepath, Slash \o projectName \o Slash, 1))

\* ------------------------------------------------------ the world's inputs

Sessions == {1, 2}

\* what a session presents: no public key at all, or a key
NoKey == "nokey"
Creds == {NoKey, "k_unknown", "k_alice", "k_bob", "k_carol", "k_dave"}

\* the user table: carol has no name set, dave lacks the "pgs" feature
UserOfKey(k) ==
    CASE k = "k_alice" -> {[ID |-> "u1", Name |-> "alice"]}
      [] k = "k_bob"   -> {[ID |-> "u2", Name |-> "bob"]}
      [] k = "k_carol" -> {[ID |-> "u3", Name |-> ""]}
      [] k = "k_dave"  -> {[ID |-> "u4", Name |-> "dave"]}
      [] OTHER         -> {}

HasFeatureForUser(id) == id \in {"u1", "u2", "u3"}

UserIDs == {"u1", "u2", "u3", "u4"}
BucketNames == {GetAssetBucketName(id) : id \in UserIDs}

\* paths of the entries a client uploads or fetches: absolute, as the
\* transfer protocols deliver them
WritePaths ==
    { <<"/", "a", "/", "x">>,
      <<"/", "b", "/", "x">>,
      <<"/", "a", "/", "b", "/", "a", "/", "x">> }

\* paths a caller lists
ListPaths == { <<>>, <<".">>, <<"/">>, <<"/", "a">> }

\* file contents (bytes)
Contents == { <<"a">>, <<"a", "b">> }

\* sizes a client declares for an entry
DeclSizes == {0, 5}

\* the commands a session may carry
Commands ==
    { <<>>, <<"command">>, <<"command", "ls">>, <<"command", "ls", "x">>,
      <<"ls", "command">>, <<"command", "rm">>, <<"scp", "ls">> }

\* an object that does not exist
NoFile == <<"-">>

\* errors, by the names of the error taxonomy
NoErr == "nil"
Panic == "panic"


\* ------------------------------------------------------------------- state

VARIABLES
    cred,       \* session -> the credential the session was opened with
    cmd,        \* session -> session.Command() of the command in hand
    ctx,        \* session -> its ssh context: key -> {} (unset) or {value}
    pc,         \* session -> where its handler stands
    mw,         \* session -> "ls" while the list middleware runs its command
    loc,        \* session -> the local variables of the running handler
    ret,        \* session -> what the last handler call returned
    trace,      \* session -> the calls made by the current command, in order
    out,        \* session -> what the current command wrote to the session
    nextCalls,  \* session -> times the current command called the next handler
    wargs,      \* session -> the FileData of the last writeAsset call
    buckets,    \* storage: the buckets that exist
    files,      \* storage: bucket -> object key -> content
    projects,   \* project table: the (user, name) rows
    crashed,    \* an unrecovered panic ended the process
    budget,     \* commands the clients may still start
    actor,      \* history: the session that took the last step
    validated,  \* history: session -> some Validate returned nil
    own,        \* history: session -> what its own Validate stored
    nres,       \* history: session -> Writes that began a project resolution
    nresOK,     \* history: session -> Writes that completed one
    wsegs,      \* history: session -> the project names its Writes derived
    urls,       \* history: session -> (path, URL) of its successful Writes
    sent,       \* history: session -> path -> the content of the entry last stored
    inserts,    \* history: session -> project name -> its InsertProject calls
    lsFiles,    \* listing run: the files List returned
    lsData,     \* listing run: the `data` slice
    lsText,     \* listing run: the bytes written
    lsPc        \* listing run: position in list.go lines 33-45

vars == << cred, cmd, ctx, pc, mw, loc, ret, trace, out, nextCalls, wargs, buckets,
           files, projects, crashed, budget, actor, validated, own, nres,
           nresOK, wsegs, urls, sent, inserts, lsFiles, lsData, lsText,
           lsPc >>

lsVars == << lsFiles, lsData, lsText, lsPc >>
sessVars == << cred, cmd, ctx, pc, mw, loc, ret, trace, out, nextCalls, wargs,
               buckets, files, projects, crashed, budget, actor, validated,
               own, nres, nresOK, wsegs, urls, sent, inserts >>

NoUser == [ID |-> "", Name |-> ""]
CtxEmpty == [user |-> {}, bucket |-> {}, quota |-> {}, project |-> {}]
LocNone == [path |-> <<>>, text |-> <<>>, content |-> <<>>, size |-> 0, user |-> NoUser,
            bucket |-> <<>>, projectName |-> <<>>, hasProject |-> FALSE,
            url |-> <<>>]
RetNone == [op |-> "", err |-> NoErr, url |-> <<>>, files |-> <<>>,
            size |-> 0, content |-> <<>>, path |-> <<>>]
ArgsNone == [user |-> {}, bucket |-> {}, quota |-> {}, path |-> <<>>, text |-> <<>>]

\* the project names the entries' paths derive
ProjectNames == {GetProjectName(p) : p \in WritePaths}

InitSessions ==
    /\ cmd = [s \in Sessions |-> <<>>]
    /\ ctx = [s \in Sessions |-> CtxEmpty]
    /\ pc = [s \in Sessions |-> "idle"]
    /\ mw = [s \in Sessions |-> "none"]
    /\ loc = [s \in Sessions |-> LocNone]
    /\ ret = [s \in Sessions |-> RetNone]
    /\ trace = [s \in Sessions |-> <<>>]
    /\ out = [s \in Sessions |-> <<>>]
    /\ nextCalls = [s \in Sessions |-> 0]
    /\ wargs = [s \in Sessions |-> ArgsNone]
    /\ buckets = {}
    /\ files = [b \in BucketNames |-> [k \in WritePaths |-> NoFile]]
    /\ projects = {}
    /\ crashed = FALSE
    /\ actor = [s |-> 0, a |-> ""]
    /\ validated = [s \in Sessions |-> FALSE]
    /\ own = [s \in Sessions |-> [user |-> {}, bucket |-> {}, quota |-> {}]]
    /\ nres = [s \in Sessions |-> 0]
    /\ nresOK = [s \in Sessions |-> 0]
    /\ wsegs = [s \in Sessions |-> {}]
    /\ urls = [s \in Sessions |-> {}]
    /\ sent = [s \in Sessions |-> [k \in WritePaths |-> NoFile]]
    /\ inserts = [s \in Sessions |-> [n \in ProjectNames |-> 0]]

InitListing ==
    /\ lsFiles = <<>>
    /\ lsData = <<>>
    /\ lsText = <<>>
    /\ lsPc = "off"

\* one client connects, with any credential
Init ==
    /\ cred \in {c \in [Sessions -> Creds] : c[2] = NoKey}
    /\ budget = MaxCalls
    /\ InitSessions
    /\ InitListing

\* two clients connect, as different users or as the same user
InitTwo ==
    /\ cred \in {c \in [Sessions -> Creds] :
                   c[1] = "k_alice" /\ c[2] \in {"k_alice", "k_bob"}}
    /\ budget = MaxCallsTwo
    /\ InitSessions
    /\ InitListing

\* ------------------------------------------------------- the ssh context

\* a cache held by the handler, not by the session: every session sees it
SetValueShared(c, s, key, v) == [t \in Sessions |-> [c[t] EXCEPT ![key] = {v}]]

\* s.Context().SetValue(key, v)
SetValue(c, s, key, v) == [c EXCEPT ![s][key] = {v}]

\* s.Context().Value(key): {} is the nil interface
Value(s, key) == ctx[s][key]

\* getUser: the type assertion panics on a nil interface
getUser(s) == IF Value(s, "user") = {} THEN Panic ELSE NoErr

\* getBucket: panics on a nil interface, fails on a bucket without a name
getBucket(s) ==
    IF Value(s, "bucket") = {} THEN Panic
    ELSE IF \E b \in Value(s, "bucket") : b = <<>> THEN "BucketNotConfigured"
    ELSE NoErr

\* a getBucketQuota that asserts the wrong type: it panics on every value
getBucketQuotaWrongType(s) == Panic

\* getBucketQuota: panics on a nil interface
getBucketQuota(s) == IF Value(s, "quota") = {} THEN Panic ELSE NoErr

\* a getProject that never finds the cached project
getProjectAlwaysNil(s) == {}

\* getProject: nil when the key is unset
getProject(s) == Value(s, "project")

The(S) == CHOOSE x \in S : TRUE


\* ------------------------------------------------------- storage backend

RECURSIVE SumSizes(_, _)
SumSizes(f, keys) ==
    IF keys = {} THEN 0
    ELSE LET k == The(keys)
         IN (IF f[k] = NoFile THEN 0 ELSE Len(f[k])) + SumSizes(f, keys \ {k})

\* Storage.GetBucketQuota: the bytes the bucket holds
BucketQuota(b) == SumSizes(files[b], WritePaths)

\* the part of key k below directory dir, <<>> when k is not below it
Below(k, dir) ==
    LET d == IF dir # <<>> /\ dir[Len(dir)] = "/" THEN dir ELSE dir \o Slash
    IN IF HasPrefix(k, d) THEN SubSeq(k, Len(d) + 1, Len(k)) ELSE <<>>

\* the entries directly below dir: a sub-directory once, a file by its name
Entries(b, dir) ==
    { [Name |-> UpToSlash(Below(k, dir)), IsDir |-> UpToSlash(Below(k, dir)) # Below(k, dir)] :
        k \in {q \in WritePaths : files[b][q] # NoFile /\ Below(q, dir) # <<>>} }

RECURSIVE SeqOfFiles(_)
SeqOfFiles(S) ==
    IF S = {} THEN <<>>
    ELSE LET m == CHOOSE x \in S : \A y \in S : y.Name = x.Name \/ StrLess(x.Name, y.Name)
                                            \/ (y.Name = x.Name /\ x.IsDir)
         IN <<m>> \o SeqOfFiles(S \ {m})

\* Storage.ListFiles(bucket, dir, false)
ListFiles(b, dir) == SeqOfFiles(Entries(b, dir))

\* ------------------------------------------------------------- bookkeeping

\* a command starts: only from idle, while the process lives
CanStart(s) == ~crashed /\ pc[s] = "idle" /\ budget > 0

ErrOut(e) == [kind |-> "error", err |-> e, text |-> <<>>]
TextOut(t) == [kind |-> "text", err |-> NoErr, text |-> t]

\* a handler returns r to its caller; the list middleware goes on from there
Return(s, r) ==
    /\ ret' = [ret EXCEPT ![s] = r]
    /\ loc' = [loc EXCEPT ![s] = LocNone]
    /\ crashed' = (r.err = Panic)

\* list.go lines 21-25 without the return: List is called after any Validate
AfterValidateNoReturn(s, err, out0) ==
    IF mw[s] = "ls"
    THEN /\ pc' = [pc EXCEPT ![s] = "m_list"]
         /\ out' = [out EXCEPT ![s] =
                      IF err \notin {NoErr, Panic} THEN out0 \o <<ErrOut(err)>> ELSE out0]
         /\ UNCHANGED mw
    ELSE /\ pc' = [pc EXCEPT ![s] = "idle"]
         /\ mw' = [mw EXCEPT ![s] = "none"]
         /\ out' = [out EXCEPT ![s] = out0]

\* list.go lines 21-25: what the middleware does with Validate's result
AfterValidate(s, err, out0) ==
    IF mw[s] = "ls" /\ err = NoErr
    THEN /\ pc' = [pc EXCEPT ![s] = "m_list"]
         /\ out' = [out EXCEPT ![s] = out0]
         /\ UNCHANGED mw
    ELSE /\ pc' = [pc EXCEPT ![s] = "idle"]
         /\ mw' = [mw EXCEPT ![s] = "none"]
         /\ out' = [out EXCEPT ![s] =
                      IF mw[s] = "ls" /\ err # Panic THEN out0 \o <<ErrOut(err)>> ELSE out0]

\* ---------------------------------------------------------------- Validate

\* handler.go lines 139-155 with the entitlement check left out
ValidateCheckNoFeature(c, dbOK) ==
    IF c = NoKey
    THEN [err |-> "CredentialNotFound", calls |-> <<>>, user |-> NoUser]
    ELSE IF ~dbOK \/ UserOfKey(c) = {}
    THEN [err |-> "CredentialNotFound", calls |-> <<"FindUserForKey">>, user |-> NoUser]
    ELSE IF The(UserOfKey(c)).Name = ""
    THEN [err |-> "InvalidIdentity", calls |-> <<"FindUserForKey">>, user |-> NoUser]
    ELSE [err |-> NoErr, calls |-> <<"FindUserForKey", "HasFeatureForUser">>,
          user |-> The(UserOfKey(c))]

\* handler.go lines 139-155: resolve the key, check the name and the feature
ValidateCheck(c, dbOK) ==
    IF c = NoKey
    THEN [err |-> "CredentialNotFound", calls |-> <<>>, user |-> NoUser]
    ELSE IF ~dbOK \/ UserOfKey(c) = {}
    THEN [err |-> "CredentialNotFound", calls |-> <<"FindUserForKey">>, user |-> NoUser]
    ELSE IF The(UserOfKey(c)).Name = ""
    THEN [err |-> "InvalidIdentity", calls |-> <<"FindUserForKey">>, user |-> NoUser]
    ELSE IF ~HasFeatureForUser(The(UserOfKey(c)).ID)
    THEN [err |-> "NotEntitled", calls |-> <<"FindUserForKey", "HasFeatureForUser">>,
          user |-> NoUser]
    ELSE [err |-> NoErr, calls |-> <<"FindUserForKey", "HasFeatureForUser">>,
          user |-> The(UserOfKey(c))]

\* Validate, lines 138-155, called by a client handler or by the list middleware
ValidateBegin(s, dbOK) ==
    /\ ~crashed
    /\ \/ CanStart(s)
       \/ pc[s] = "m_validate"
    /\ LET direct == pc[s] = "idle"
           chk == ValidateCheck(cred[s], dbOK)
           tr == (IF direct THEN <<>> ELSE trace[s]) \o <<"Validate">> \o chk.calls
           out0 == IF direct THEN <<>> ELSE out[s]
       IN /\ trace' = [trace EXCEPT ![s] = tr]
          /\ budget' = IF direct THEN budget - 1 ELSE budget
          /\ nextCalls' = IF direct THEN [nextCalls EXCEPT ![s] = 0] ELSE nextCalls
          /\ IF chk.err # NoErr
             THEN /\ Return(s, [RetNone EXCEPT !.op = "Validate", !.err = chk.err])
                  /\ AfterValidate(s, chk.err, out0)
             ELSE /\ pc' = [pc EXCEPT ![s] = "v_upsert"]
                  /\ loc' = [loc EXCEPT ![s] = [LocNone EXCEPT !.user = chk.user]]
                  /\ out' = [out EXCEPT ![s] = out0]
                  /\ UNCHANGED <<ret, mw, crashed>>
    /\ actor' = [s |-> s, a |-> "ValidateBegin"]
    /\ UNCHANGED <<cred, ctx, wargs, buckets, files, projects, validated, own,
                   nres, nresOK, wsegs, urls, sent, inserts>>
    /\ UNCHANGED <<cmd, lsVars>>

\* Validate, lines 157-162: UpsertBucket, then cache the bucket
ValidateUpsert(s, ok) ==
    /\ ~crashed
    /\ pc[s] = "v_upsert"
    /\ trace' = [trace EXCEPT ![s] = @ \o <<"UpsertBucket">>]
    /\ LET b == GetAssetBucketName(loc[s].user.ID)
       IN IF ok
          THEN /\ buckets' = buckets \cup {b}
               /\ ctx' = SetValue(ctx, s, "bucket", b)
               /\ own' = [own EXCEPT ![s].bucket = {b}]
               /\ loc' = [loc EXCEPT ![s].bucket = b]
               /\ pc' = [pc EXCEPT ![s] = "v_quota"]
               /\ UNCHANGED <<ret, mw, out, crashed>>
          ELSE /\ Return(s, [RetNone EXCEPT !.op = "Validate", !.err = "StorageUnavailable"])
               /\ AfterValidate(s, "StorageUnavailable", out[s])
               /\ UNCHANGED <<buckets, ctx, own>>
    /\ actor' = [s |-> s, a |-> "ValidateUpsert"]
    /\ UNCHANGED <<cred, nextCalls, wargs, files, projects, budget, validated,
                   nres, nresOK, wsegs, urls, sent, inserts>>
    /\ UNCHANGED <<cmd, lsVars>>

\* lines 164-171 without the error return: a failed GetBucketQuota caches 0
CacheQuotaAndUserUnchecked(c, s, ok, quota, user) ==
    SetValue(SetValue(c, s, "quota", IF ok THEN quota ELSE 0), s, "user", user)

\* lines 164-171 with the user cached before GetBucketQuota is checked
CacheUserBeforeQuota(c, s, ok, quota, user) ==
    IF ok THEN SetValue(SetValue(c, s, "quota", quota), s, "user", user)
    ELSE SetValue(c, s, "user", user)

\* Validate, lines 164-171: the context after GetBucketQuota returned
CacheQuotaAndUser(c, s, ok, quota, user) ==
    IF ok THEN SetValue(SetValue(c, s, "quota", quota), s, "user", user) ELSE c

\* Validate, lines 164-174: GetBucketQuota, then cache the quota and the user
ValidateQuota(s, ok) ==
    /\ ~crashed
    /\ pc[s] = "v_quota"
    /\ trace' = [trace EXCEPT ![s] = @ \o <<"GetBucketQuota">>]
    /\ ctx' = CacheQuotaAndUser(ctx, s, ok, BucketQuota(loc[s].bucket), loc[s].user)
    /\ IF ok
       THEN /\ own' = [own EXCEPT ![s].quota = {BucketQuota(loc[s].bucket)},
                                  ![s].user = {loc[s].user}]
            /\ validated' = [validated EXCEPT ![s] = TRUE]
            /\ Return(s, [RetNone EXCEPT !.op = "Validate"])
            /\ AfterValidate(s, NoErr, out[s])
       ELSE /\ Return(s, [RetNone EXCEPT !.op = "Validate", !.err = "StorageUnavailable"])
            /\ AfterValidate(s, "StorageUnavailable", out[s])
            /\ UNCHANGED <<own, validated>>
    /\ actor' = [s |-> s, a |-> "ValidateQuota"]
    /\ UNCHANGED <<cred, nextCalls, wargs, buckets, files, projects, budget,
                   nres, nresOK, wsegs, urls, sent, inserts>>
    /\ UNCHANGED <<cmd, lsVars>>


\* ------------------------------------------------------------------- Write

\* a Write that resolves again when the entry derives another project name
NeedsResolutionPerName(s, name) ==
    getProject(s) = {} \/ \E p \in getProject(s) : p.Name # name

\* Write, lines 197-201: the project is resolved only when none is cached
NeedsResolution(s, name) == getProject(s) = {}

\* Write, lines 178-199: getUser, read the entry, getBucket, getProject
WriteBegin(s, path, content, declSize, readOK) ==
    /\ CanStart(s)
    /\ budget' = budget - 1
    /\ nextCalls' = [nextCalls EXCEPT ![s] = 0]
    /\ out' = [out EXCEPT ![s] = <<>>]
    /\ trace' = [trace EXCEPT ![s] = <<"Write">>]
    /\ LET text == IF readOK THEN content ELSE <<>>
           err == IF getUser(s) # NoErr THEN getUser(s) ELSE getBucket(s)
           name == GetProjectName(path)
       IN IF err # NoErr
          THEN /\ Return(s, [RetNone EXCEPT !.op = "Write", !.err = err, !.path = path])
               /\ UNCHANGED <<pc, nres, wsegs, urls, sent>>
          ELSE /\ loc' = [loc EXCEPT ![s] =
                            [LocNone EXCEPT !.path = path, !.text = text,
                                            !.content = content,
                                            !.size = Len(text),
                                            !.user = The(Value(s, "user")),
                                            !.bucket = The(Value(s, "bucket")),
                                            !.projectName = name,
                                            !.hasProject = ~NeedsResolution(s, name)]]
               /\ pc' = [pc EXCEPT ![s] = IF NeedsResolution(s, name)
                                                THEN "w_find" ELSE "w_store"]
               /\ nres' = [nres EXCEPT ![s] = IF NeedsResolution(s, name) THEN @ + 1 ELSE @]
               /\ wsegs' = [wsegs EXCEPT ![s] = @ \cup {name}]
               /\ UNCHANGED <<ret, crashed>>
    /\ actor' = [s |-> s, a |-> "WriteBegin"]
    /\ UNCHANGED <<cred, ctx, mw, wargs, buckets, files, projects, validated, own,
                   nresOK, urls>>
    /\ sent' = sent
    /\ UNCHANGED inserts
    /\ UNCHANGED <<cmd, lsVars>>

WriteFails(s, err) ==
    /\ Return(s, [RetNone EXCEPT !.op = "Write", !.err = err, !.path = loc[s].path])
    /\ pc' = [pc EXCEPT ![s] = "idle"]

ProjectRow(s) == [UserID |-> loc[s].user.ID, Name |-> loc[s].projectName]

\* Write, lines 202-203 and 208: FindProjectByName; any error counts as absent
WriteFind(s, dbOK) ==
    /\ ~crashed
    /\ pc[s] = "w_find"
    /\ trace' = [trace EXCEPT ![s] = @ \o <<"FindProjectByName">>]
    /\ pc' = [pc EXCEPT ![s] =
                IF dbOK /\ ProjectRow(s) \in projects THEN "w_update" ELSE "w_insert"]
    /\ actor' = [s |-> s, a |-> "WriteFind"]
    /\ UNCHANGED <<cred, ctx, mw, loc, ret, out, nextCalls, wargs, buckets, files,
                   projects, crashed, budget, validated, own, nres, nresOK, wsegs, urls, sent, inserts>>
    /\ UNCHANGED <<cmd, lsVars>>

\* a Write that caches the project although the project store call failed
CacheProjectUnchecked(c, s, ok, project) == SetValue(c, s, "project", project)

\* Write, lines 204-218: the project is cached only past the error returns
CacheProject(c, s, ok, project) ==
    IF ok THEN SetValue(c, s, "project", project) ELSE c

\* Write, lines 204-207 and 218: UpdateProject, then cache the project found
WriteUpdate(s, dbOK) ==
    /\ ~crashed
    /\ pc[s] = "w_update"
    /\ trace' = [trace EXCEPT ![s] = @ \o <<"UpdateProject">>]
    /\ ctx' = CacheProject(ctx, s, dbOK, ProjectRow(s))
    /\ IF dbOK
       THEN /\ nresOK' = [nresOK EXCEPT ![s] = @ + 1]
            /\ pc' = [pc EXCEPT ![s] = "w_store"]
            /\ UNCHANGED <<loc, ret, crashed>>
       ELSE /\ WriteFails(s, "DBError")
            /\ UNCHANGED nresOK
    /\ actor' = [s |-> s, a |-> "WriteUpdate"]
    /\ UNCHANGED <<cred, mw, out, nextCalls, wargs, buckets, files, projects,
                   budget, validated, own, nres, wsegs, urls, sent, inserts>>
    /\ UNCHANGED <<cmd, lsVars>>

\* Write, lines 209-212: InsertProject
WriteInsert(s, dbOK) ==
    /\ ~crashed
    /\ pc[s] = "w_insert"
    /\ trace' = [trace EXCEPT ![s] = @ \o <<"InsertProject">>]
    /\ IF dbOK
       THEN /\ projects' = projects \cup {ProjectRow(s)}
            /\ pc' = [pc EXCEPT ![s] = "w_refetch"]
            /\ UNCHANGED <<loc, ret, crashed>>
       ELSE /\ WriteFails(s, "DBError")
            /\ UNCHANGED projects
    /\ inserts' = [inserts EXCEPT ![s][loc[s].projectName] = @ + 1]
    /\ actor' = [s |-> s, a |-> "WriteInsert"]
    /\ UNCHANGED <<cred, ctx, mw, out, nextCalls, wargs, buckets, files,
                   budget, validated, own, nres, nresOK, wsegs, urls, sent>>
    /\ UNCHANGED <<cmd, lsVars>>

\* Write, lines 213-218: fetch the inserted project, then cache it
WriteRefetch(s, dbOK) ==
    /\ ~crashed
    /\ pc[s] = "w_refetch"
    /\ trace' = [trace EXCEPT ![s] = @ \o <<"FindProjectByName">>]
    /\ ctx' = CacheProject(ctx, s, dbOK /\ ProjectRow(s) \in projects, ProjectRow(s))
    /\ IF dbOK /\ ProjectRow(s) \in projects
       THEN /\ nresOK' = [nresOK EXCEPT ![s] = @ + 1]
            /\ pc' = [pc EXCEPT ![s] = "w_store"]
            /\ UNCHANGED <<loc, ret, crashed>>
       ELSE /\ WriteFails(s, "DBError")
            /\ UNCHANGED nresOK
    /\ actor' = [s |-> s, a |-> "WriteRefetch"]
    /\ UNCHANGED <<cred, mw, out, nextCalls, wargs, buckets, files, projects,
                   budget, validated, own, nres, wsegs, urls, sent, inserts>>
    /\ UNCHANGED <<cmd, lsVars>>

\* the outcomes of the storage write routine
WriteAssetOutcomes == {NoErr, "QuotaExceeded", "StorageUnavailable"}

\* writeAsset(data): persist data.Text under the entry's key in data.Bucket
writeAsset(data, outcome) ==
    IF outcome = NoErr
    THEN [files EXCEPT ![data.Bucket][GetAssetFileName(data.Filepath)] = data.Text]
    ELSE files

\* a Write that asks the storage backend for the quota of the cached bucket
getBucketQuotaValueLive(s) == BucketQuota(The(Value(s, "bucket")))

\* Write, line 221: the quota put into FileData is the cached snapshot
getBucketQuotaValue(s) == The(Value(s, "quota"))

\* Write, lines 221-240: getBucketQuota, writeAsset, the URL
WriteStore(s, outcome) ==
    /\ ~crashed
    /\ pc[s] = "w_store"
    /\ pc' = [pc EXCEPT ![s] = "idle"]
    /\ IF getBucketQuota(s) # NoErr
       THEN /\ Return(s, [RetNone EXCEPT !.op = "Write", !.err = Panic, !.path = loc[s].path])
            /\ UNCHANGED <<trace, wargs, files>>
       ELSE LET data == [Filepath |-> loc[s].path, Size |-> loc[s].size,
                         Text |-> loc[s].text, User |-> loc[s].user,
                         Bucket |-> loc[s].bucket,
                         BucketQuota |-> getBucketQuotaValue(s)]
            IN /\ trace' = [trace EXCEPT ![s] = @ \o <<"writeAsset">>]
               /\ wargs' = [wargs EXCEPT ![s] =
                              [user |-> {data.User}, bucket |-> {data.Bucket},
                               quota |-> {data.BucketQuota}, path |-> data.Filepath,
                               text |-> data.Text]]
               /\ files' = writeAsset(data, outcome)
               /\ Return(s, [RetNone EXCEPT
                               !.op = "Write", !.err = outcome, !.path = data.Filepath,
                               !.size = data.Size,
                               !.url = IF outcome = NoErr
                                       THEN WriteURL(data.User.Name, loc[s].projectName,
                                                     data.Filepath)
                                       ELSE <<>>])
    /\ urls' = [urls EXCEPT ![s] =
                  IF ret'[s].err = NoErr
                  THEN @ \cup {[path |-> ret'[s].path, url |-> ret'[s].url]}
                  ELSE @]
    /\ sent' = [sent EXCEPT ![s] =
                  IF ret'[s].err = NoErr
                  THEN [@ EXCEPT ![loc[s].path] = loc[s].content]
                  ELSE @]
    /\ actor' = [s |-> s, a |-> "WriteStore"]
    /\ UNCHANGED <<cred, ctx, mw, out, nextCalls, buckets, projects, budget,
                   validated, own, nres, nresOK, wsegs, inserts>>
    /\ UNCHANGED <<cmd, lsVars>>


\* -------------------------------------------------------------------- Read

\* Read, lines 76-101: the metadata comes from the entry, the bytes from storage
Read(s, path, declSize, bucketOK, fileOK) ==
    /\ CanStart(s)
    /\ budget' = budget - 1
    /\ nextCalls' = [nextCalls EXCEPT ![s] = 0]
    /\ out' = [out EXCEPT ![s] = <<>>]
    /\ LET r0 == [RetNone EXCEPT !.op = "Read", !.path = path]
           b == GetAssetBucketName(The(Value(s, "user")).ID)
           key == GetAssetFileName(path)
       IN IF getUser(s) # NoErr
          THEN /\ trace' = [trace EXCEPT ![s] = <<"Read">>]
               /\ Return(s, [r0 EXCEPT !.err = getUser(s)])
          ELSE IF ~bucketOK \/ b \notin buckets
          THEN /\ trace' = [trace EXCEPT ![s] = <<"Read", "GetBucket">>]
               /\ Return(s, [r0 EXCEPT !.err = "StorageUnavailable"])
          ELSE IF ~fileOK \/ files[b][key] = NoFile
          THEN /\ trace' = [trace EXCEPT ![s] = <<"Read", "GetBucket", "GetFile">>]
               /\ Return(s, [r0 EXCEPT !.err = "ObjectNotFound"])
          ELSE /\ trace' = [trace EXCEPT ![s] = <<"Read", "GetBucket", "GetFile">>]
               /\ Return(s, [r0 EXCEPT !.size = declSize, !.content = files[b][key]])
    /\ actor' = [s |-> s, a |-> "Read"]
    /\ UNCHANGED <<cred, ctx, pc, mw, wargs, buckets, files, projects, validated,
                   own, nres, nresOK, wsegs, urls, sent, inserts>>
    /\ UNCHANGED <<cmd, lsVars>>

\* -------------------------------------------------------------------- List

\* List, lines 103-135: what it returns and the calls it makes
ListResult(s, fpath, bucketOK, listOK) ==
    LET cleanFilename == Base(fpath)
        b == GetAssetBucketName(The(Value(s, "user")).ID)
    IN IF getUser(s) # NoErr
       THEN [err |-> getUser(s), files |-> <<>>, calls |-> <<"List">>]
       ELSE IF ~bucketOK \/ b \notin buckets
       THEN [err |-> "StorageUnavailable", files |-> <<>>, calls |-> <<"List", "GetBucket">>]
       ELSE IF cleanFilename = <<>> \/ cleanFilename = <<".">>
       THEN [err |-> NoErr,
             files |-> << [Name |-> IF cleanFilename = <<>> THEN Slash ELSE cleanFilename,
                           IsDir |-> TRUE] >>,
             calls |-> <<"List", "GetBucket">>]
       ELSE IF ~listOK
       THEN [err |-> "StorageUnavailable", files |-> <<>>,
             calls |-> <<"List", "GetBucket", "ListFiles">>]
       ELSE [err |-> NoErr, files |-> ListFiles(b, fpath),
             calls |-> <<"List", "GetBucket", "ListFiles">>]

\* List called by a client handler
List(s, fpath, bucketOK, listOK) ==
    /\ CanStart(s)
    /\ budget' = budget - 1
    /\ nextCalls' = [nextCalls EXCEPT ![s] = 0]
    /\ out' = [out EXCEPT ![s] = <<>>]
    /\ LET r == ListResult(s, fpath, bucketOK, listOK)
       IN /\ trace' = [trace EXCEPT ![s] = r.calls]
          /\ Return(s, [RetNone EXCEPT !.op = "List", !.err = r.err,
                                       !.files = r.files, !.path = fpath])
    /\ actor' = [s |-> s, a |-> "List"]
    /\ UNCHANGED <<cred, ctx, pc, mw, wargs, buckets, files, projects, validated,
                   own, nres, nresOK, wsegs, urls, sent, inserts>>
    /\ UNCHANGED <<cmd, lsVars>>

\* ------------------------------------------------------ the list middleware

\* list.go line 16 for a command of exactly the two tokens
HandlesExactly(c) == Len(c) = 2 /\ c[1] = "command" /\ c[2] = "ls"

\* list.go line 16: the commands the middleware keeps for itself
Handles(c) == Len(c) > 1 /\ c[1] = "command" /\ c[2] = "ls"

\* list.go lines 33-41: one line per listed file
NormalizeAll(fileList) == [i \in 1..Len(fileList) |-> NormalizeName(fileList[i])]

NewLine == <<"\n">>

\* list.go lines 33-45: the text written for a file list
ListingText(fileList) == Join(SortStrings(NormalizeAll(fileList)), NewLine)

\* list.go lines 15-19: a command arrives; another handler's command is passed on
LsCommand(s, c) ==
    /\ CanStart(s)
    /\ budget' = budget - 1
    /\ cmd' = [cmd EXCEPT ![s] = c]
    /\ trace' = [trace EXCEPT ![s] = <<>>]
    /\ out' = [out EXCEPT ![s] = <<>>]
    /\ IF Handles(c)
       THEN /\ mw' = [mw EXCEPT ![s] = "ls"]
            /\ pc' = [pc EXCEPT ![s] = "m_validate"]
            /\ nextCalls' = [nextCalls EXCEPT ![s] = 0]
       ELSE /\ nextCalls' = [nextCalls EXCEPT ![s] = 1]
            /\ UNCHANGED <<mw, pc>>
    /\ actor' = [s |-> s, a |-> "LsCommand"]
    /\ UNCHANGED <<cred, ctx, loc, ret, wargs, buckets, files, projects, crashed,
                   validated, own, nres, nresOK, wsegs, urls, sent, inserts>>
    /\ UNCHANGED lsVars

\* list.go lines 27-48: List(session, "/"), then the sorted listing is written
LsList(s, bucketOK, listOK, writeOK) ==
    /\ ~crashed
    /\ pc[s] = "m_list"
    /\ LET r == ListResult(s, Slash, bucketOK, listOK)
       IN /\ trace' = [trace EXCEPT ![s] = @ \o r.calls]
          /\ Return(s, [RetNone EXCEPT !.op = "List", !.err = r.err,
                                       !.files = r.files, !.path = Slash])
          /\ out' = [out EXCEPT ![s] =
                       IF r.err = Panic THEN @
                       ELSE IF r.err # NoErr THEN @ \o <<ErrOut(r.err)>>
                       ELSE IF writeOK THEN @ \o <<TextOut(ListingText(r.files))>>
                       ELSE @ \o <<ErrOut("WriteFailed")>>]
    /\ pc' = [pc EXCEPT ![s] = "idle"]
    /\ mw' = [mw EXCEPT ![s] = "none"]
    /\ actor' = [s |-> s, a |-> "LsList"]
    /\ UNCHANGED <<cred, cmd, ctx, nextCalls, wargs, buckets, files, projects,
                   budget, validated, own, nres, nresOK, wsegs, urls, sent, inserts>>
    /\ UNCHANGED lsVars

\* ----------------------------------------------------------- specification

\* the session of the one-client specification
Solo == {1}

Next ==
    \E s \in Solo :
        \/ \E dbOK \in BOOLEAN : ValidateBegin(s, dbOK)
        \/ \E ok \in BOOLEAN : ValidateUpsert(s, ok)
        \/ \E ok \in BOOLEAN : ValidateQuota(s, ok)
        \/ \E path \in WritePaths, content \in Contents, declSize \in DeclSizes,
              readOK \in BOOLEAN : WriteBegin(s, path, content, declSize, readOK)
        \/ \E dbOK \in BOOLEAN : WriteFind(s, dbOK)
        \/ \E dbOK \in BOOLEAN : WriteUpdate(s, dbOK)
        \/ \E dbOK \in BOOLEAN : WriteInsert(s, dbOK)
        \/ \E dbOK \in BOOLEAN : WriteRefetch(s, dbOK)
        \/ \E outcome \in WriteAssetOutcomes : WriteStore(s, outcome)
        \/ \E path \in WritePaths, declSize \in DeclSizes, bucketOK \in BOOLEAN,
              fileOK \in BOOLEAN : Read(s, path, declSize, bucketOK, fileOK)
        \/ \E fpath \in ListPaths, bucketOK \in BOOLEAN, listOK \in BOOLEAN :
              List(s, fpath, bucketOK, listOK)
        \/ \E c \in Commands : LsCommand(s, c)
        \/ \E bucketOK \in BOOLEAN, listOK \in BOOLEAN, writeOK \in BOOLEAN :
              LsList(s, bucketOK, listOK, writeOK)

Spec == Init /\ [][Next]_vars

\* the entries two concurrent clients upload
TwoPaths == { <<"/", "a", "/", "x">>, <<"/", "b", "/", "x">> }
TwoContents == { <<"a">> }

\* two sessions, their Validate and Write calls interleaved step by step
NextTwo ==
    \E s \in Sessions :
        \/ \E dbOK \in BOOLEAN : ValidateBegin(s, dbOK)
        \/ \E ok \in BOOLEAN : ValidateUpsert(s, ok)
        \/ \E ok \in BOOLEAN : ValidateQuota(s, ok)
        \/ \E path \in TwoPaths, content \in TwoContents :
              WriteBegin(s, path, content, Len(content), TRUE)
        \/ \E dbOK \in BOOLEAN : WriteFind(s, dbOK)
        \/ \E dbOK \in BOOLEAN : WriteUpdate(s, dbOK)
        \/ \E dbOK \in BOOLEAN : WriteInsert(s, dbOK)
        \/ \E dbOK \in BOOLEAN : WriteRefetch(s, dbOK)
        \/ \E outcome \in WriteAssetOutcomes : WriteStore(s, outcome)

SpecTwo == InitTwo /\ [][NextTwo]_vars


\* ------------------------------------------------- the listing, step by step

ListChars == {"/", "a"}

RECURSIVE StringsUpTo(_)
StringsUpTo(n) ==
    IF n = 0 THEN {<<>>}
    ELSE StringsUpTo(n - 1) \cup
         {Append(w, c) : w \in {v \in StringsUpTo(n - 1) : Len(v) = n - 1}, c \in ListChars}

\* the files a storage backend may list
ListedFiles == [Name : StringsUpTo(MaxNameLen), IsDir : BOOLEAN]

RECURSIVE FileLists(_)
FileLists(n) ==
    IF n = 0 THEN {<<>>}
    ELSE FileLists(n - 1) \cup
         {Append(l, f) : l \in {k \in FileLists(n - 1) : Len(k) = n - 1}, f \in ListedFiles}

\* List has returned some file list to the middleware
InitList ==
    /\ cred = [s \in Sessions |-> NoKey]
    /\ budget = 0
    /\ InitSessions
    /\ lsFiles \in FileLists(MaxFiles)
    /\ lsData = <<>>
    /\ lsText = <<>>
    /\ lsPc = "loop"

\* list.go lines 34-41: one turn of the loop
LsNormalize ==
    /\ lsPc = "loop"
    /\ Len(lsData) < Len(lsFiles)
    /\ lsData' = Append(lsData, NormalizeName(lsFiles[Len(lsData) + 1]))
    /\ UNCHANGED <<lsFiles, lsText, lsPc, sessVars>>

\* list.go line 43
LsSort ==
    /\ lsPc = "loop"
    /\ Len(lsData) = Len(lsFiles)
    /\ lsData' = SortStrings(lsData)
    /\ lsPc' = "sorted"
    /\ UNCHANGED <<lsFiles, lsText, sessVars>>

\* list.go line 45
LsWrite ==
    /\ lsPc = "sorted"
    /\ lsText' = Join(lsData, NewLine)
    /\ lsPc' = "done"
    /\ UNCHANGED <<lsFiles, lsData, sessVars>>

NextList == LsNormalize \/ LsSort \/ LsWrite

SpecList == InitList /\ [][NextList]_vars


\* ------------------------------------------------------------------ claims

InTrace(s, call) == \E i \in 1..Len(trace[s]) : trace[s][i] = call

ProjectCalls == {"FindProjectByName", "UpdateProject", "InsertProject"}
StorageCalls == {"UpsertBucket", "GetBucket", "GetBucketQuota", "ListFiles",
                 "GetFile", "writeAsset"}

Did(s, a) == actor = [s |-> s, a |-> a]

\* C1: the storage write routine runs only in a session in which a Validate
\* has returned success, and with the identity and the bucket that the
\* session's Validate cached.
C1_WriteOnlyAfterValidate ==
    \A s \in Sessions :
        wargs[s] # ArgsNone =>
            /\ validated[s]
            /\ wargs[s].user # {} /\ wargs[s].user = own[s].user
            /\ wargs[s].bucket # {} /\ wargs[s].bucket = own[s].bucket

\* the last command of a validated session, a Write, reached the storage write routine
C1_Witness ==
    /\ Did(1, "WriteStore")
    /\ InTrace(1, "writeAsset")
    /\ ret[1].err = NoErr
    /\ budget = 0

\* C2: Write on a session with no cached identity returns SessionNotValidated
\* and makes no project-store and no storage call.
C2_UnvalidatedWriteReturnsError ==
    \A s \in Sessions :
        (Did(s, "WriteBegin") /\ ctx[s].user = {}) =>
            /\ ret[s].op = "Write"
            /\ ret[s].err = "SessionNotValidated"
            /\ \A c \in ProjectCalls \cup StorageCalls : ~InTrace(s, c)

\* C3 as stated: Writes that all share one first path segment begin exactly one
\* project resolution between them.
C3_OneResolutionInTotal ==
    \A s \in Sessions : Cardinality(wsegs[s]) = 1 => nres[s] = 1

\* C3 amended: a Write resolves the project only while none is cached; a
\* resolution that fails caches nothing, so the next Write resolves again; at
\* most one Write completes a resolution, and it is the one that cached the
\* project; a Write that starts with a project cached makes no project-store call.
C3_ResolveUntilCached ==
    \A s \in Sessions :
        /\ nresOK[s] <= 1
        /\ (nresOK[s] = 1) <=> (ctx[s].project # {})
        /\ pc[s] \in {"w_find", "w_update", "w_insert", "w_refetch"} => ctx[s].project = {}
        /\ (Did(s, "WriteBegin") /\ pc[s] = "w_store") =>
               /\ nresOK[s] = 1
               /\ \A c \in ProjectCalls : ~InTrace(s, c)
        /\ nres[s] >= nresOK[s]

\* a second Write of the session went straight to the storage write
C3_Witness ==
    /\ Did(1, "WriteStore")
    /\ trace[1] = <<"Write", "writeAsset">>
    /\ nres[1] = 1 /\ nresOK[1] = 1
    /\ Cardinality(wsegs[1]) = 1

\* C4: a Validate that fails on the credential, the name or the entitlement
\* returns that error (NotEntitled for an identity without the feature), has
\* called neither UpsertBucket nor GetBucketQuota, and leaves every key of the
\* session context as it was.
C4_ValidationFailsBeforeStorage ==
    [][\A s \in Sessions :
          (actor'.s = s /\ actor'.a = "ValidateBegin") =>
             /\ cred[s] \notin {"k_alice", "k_bob"} => pc'[s] # "v_upsert"
             /\ pc'[s] # "v_upsert" =>
                  /\ ret'[s].op = "Validate"
                  /\ ret'[s].err \in {"CredentialNotFound", "InvalidIdentity", "NotEntitled"}
                  /\ cred[s] \in {NoKey, "k_unknown"} => ret'[s].err = "CredentialNotFound"
                  /\ (ret'[s].err = "InvalidIdentity") <=>
                        (cred[s] = "k_carol" /\ ret'[s].err # "CredentialNotFound")
                  /\ (ret'[s].err = "NotEntitled") <=>
                        (cred[s] = "k_dave" /\ ret'[s].err # "CredentialNotFound")
                  /\ InTrace(s, "HasFeatureForUser")' => ret'[s].err = "NotEntitled"
                  /\ ~InTrace(s, "UpsertBucket")' /\ ~InTrace(s, "GetBucketQuota")'
                  /\ ctx' = ctx
                  /\ buckets' = buckets
      ]_vars

\* an identity without the feature was refused
C4_Witness ==
    /\ Did(1, "ValidateBegin")
    /\ cred[1] = "k_dave"
    /\ ret[1].err = "NotEntitled"
    /\ ctx[1] = CtxEmpty


SlashCount(line) == Cardinality({i \in 1..Len(line) : line[i] = "/"})
EndsWithSlash(line) == line # <<>> /\ line[Len(line)] = "/"

RECURSIVE SplitLines(_)
\* the lines of a text: the parts between its newlines
SplitLines(text) ==
    IF \A i \in 1..Len(text) : text[i] # "\n" THEN <<text>>
    ELSE LET n == CHOOSE i \in 1..Len(text) :
                     text[i] = "\n" /\ \A j \in 1..(i - 1) : text[j] # "\n"
         IN <<SubSeq(text, 1, n - 1)>> \o SplitLines(SubSeq(text, n + 1, Len(text)))

\* C5: the lines written for a file list are in ascending byte order; a line
\* made from a directory ends with exactly one "/", a line made from another
\* file holds no "/", and no line holds a "/" but as its last character.
C5_ListingSortedAndNormalized ==
    /\ lsPc = "loop" =>
          \A i \in 1..Len(lsData) :
             IF lsFiles[i].IsDir
             THEN EndsWithSlash(lsData[i]) /\ SlashCount(lsData[i]) = 1
             ELSE SlashCount(lsData[i]) = 0
    /\ lsPc \in {"sorted", "done"} =>
          /\ Len(lsData) = Len(lsFiles)
          /\ \A i, j \in 1..Len(lsData) : i < j => ~StrLess(lsData[j], lsData[i])
          /\ \A i \in 1..Len(lsData) :
                SlashCount(lsData[i]) = IF EndsWithSlash(lsData[i]) THEN 1 ELSE 0
          /\ Cardinality({i \in 1..Len(lsData) : EndsWithSlash(lsData[i])})
                = Cardinality({i \in 1..Len(lsFiles) : lsFiles[i].IsDir})
    /\ (lsPc = "done" /\ lsData # <<>>) => SplitLines(lsText) = lsData

\* a directory and a file whose names hold separators were listed, and the sort
\* changed their order
C5_Witness ==
    /\ lsPc = "done"
    /\ Len(lsFiles) = 2
    /\ lsFiles[1].IsDir /\ ~lsFiles[2].IsDir
    /\ SlashCount(lsFiles[1].Name) > 0 /\ SlashCount(lsFiles[2].Name) > 0
    /\ lsData[1] = NormalizeName(lsFiles[2])
    /\ lsData[1] # lsData[2]

\* C6: the middleware's List of the root of a bucket that holds no files
\* returns the one synthetic directory "/" and does not call ListFiles.
C6_EmptyRootIsSynthetic ==
    \A s \in Sessions :
        (Did(s, "LsList") /\ ret[s].err = NoErr
           /\ \A b \in ctx[s].bucket : \A k \in WritePaths : files[b][k] = NoFile) =>
            /\ ret[s].files = << [Name |-> Slash, IsDir |-> TRUE] >>
            /\ ~InTrace(s, "ListFiles")

\* C7: the URL of a successful Write is made of the cached identity's name, the
\* first segment of the entry's own path, and the path without its leading
\* "/<project>/" and nothing else removed; two paths written in one session
\* never share a URL.
C7_WriteURL ==
    \A s \in Sessions :
        /\ (Did(s, "WriteStore") /\ ret[s].err = NoErr) =>
              /\ Len(ret[s].url) = 3
              /\ \A u \in ctx[s].user : ret[s].url[1] = u.Name
              /\ ctx[s].user # {}
              /\ SlashCount(ret[s].url[2]) = 0
              /\ ret[s].path = Slash \o ret[s].url[2] \o Slash \o ret[s].url[3]
        /\ \A x, y \in urls[s] : x.path # y.path => x.url # y.url

\* one session stored two paths of one project, one of them with the
\* project's name further down the path
C7_Witness ==
    /\ Did(1, "WriteStore") /\ ret[1].err = NoErr
    /\ \E x, y \in urls[1] :
          /\ x.path # y.path
          /\ x.url[2] = y.url[2]
          /\ Len(x.path) > 4

\* C8: a Read of a path at which a Write of the session stored an entry with
\* content B returns the bytes B and a metadata size equal to the length of B,
\* whatever size the Write entry or the Read entry declares.
C8_RoundTrip ==
    \A s \in Sessions :
        (Did(s, "Read") /\ ret[s].err = NoErr /\ sent[s][ret[s].path] # NoFile) =>
            /\ ret[s].content = sent[s][ret[s].path]
            /\ ret[s].size = Len(sent[s][ret[s].path])

\* C9 as stated: every command other than exactly `command ls` goes to the
\* next handler, with no Validate, no List and nothing written.
C9_OnlyExactCommand ==
    \A s \in Sessions :
        (Did(s, "LsCommand") /\ cmd[s] # <<"command", "ls">>) =>
            /\ nextCalls[s] = 1
            /\ pc[s] = "idle" /\ mw[s] = "none"
            /\ trace[s] = <<>> /\ out[s] = <<>>

\* C9 amended: the middleware keeps a command whose first two tokens are
\* `command` `ls`, whatever follows them; every other command goes to the next
\* handler exactly once, with no Validate, no List and nothing written.
C9_CommandPrefix ==
    \A s \in Sessions :
        /\ Did(s, "LsCommand") =>
             IF Len(cmd[s]) >= 2 /\ SubSeq(cmd[s], 1, 2) = <<"command", "ls">>
             THEN /\ nextCalls[s] = 0
                  /\ pc[s] = "m_validate" /\ mw[s] = "ls"
             ELSE /\ nextCalls[s] = 1
                  /\ pc[s] = "idle" /\ mw[s] = "none"
                  /\ trace[s] = <<>> /\ out[s] = <<>>
        /\ nextCalls[s] <= 1
        /\ mw[s] = "ls" => nextCalls[s] = 0

\* another handler's command was passed on
C9_Witness ==
    /\ Did(1, "LsCommand")
    /\ cmd[1] = <<"command", "rm">>
    /\ nextCalls[1] = 1

\* C10: a session's context is changed only by that session's own calls; a
\* Write hands the storage write routine what its own session's Validate
\* cached; a session skips project resolution only after a resolution of its own.
C10_SessionsIsolated ==
    [][\A s \in Sessions :
          /\ ctx'[s] # ctx[s] => actor'.s = s
          /\ (actor' = [s |-> s, a |-> "WriteStore"] /\ InTrace(s, "writeAsset")') =>
                /\ wargs'[s].user = own'[s].user
                /\ wargs'[s].bucket = own'[s].bucket
                /\ wargs'[s].quota = own'[s].quota
          /\ pc'[s] = "w_store" => nresOK'[s] >= 1
      ]_vars

\* two users each validated and each resolved a project of their own
C10_Witness ==
    /\ cred[1] # cred[2]
    /\ validated[1] /\ validated[2]
    /\ nresOK[1] = 1 /\ nresOK[2] = 1
    /\ ctx[1].user # ctx[2].user
    /\ \A p \in ctx[1].project, q \in ctx[2].project : p.Name = q.Name

\* the steps of Write that can end it after its checks passed
WriteSteps == {"WriteUpdate", "WriteInsert", "WriteRefetch", "WriteStore"}

\* C11: a Write that ends in a project-store or storage error (QuotaExceeded
\* included) ends only that command: the error is returned, the process
\* lives, the session is idle again, and the cached identity, bucket and quota
\* snapshot are what they were, so the checks a next Write makes still pass.
C11_FailedWriteKeepsSession ==
    [][\A s \in Sessions :
          (actor'.s = s /\ actor'.a \in WriteSteps /\ pc'[s] = "idle"
              /\ ret'[s].err # NoErr) =>
             /\ ret'[s].op = "Write"
             /\ ret'[s].err \in {"DBError", "QuotaExceeded", "StorageUnavailable"}
             /\ ~crashed'
             /\ ctx'[s].user = ctx[s].user /\ ctx[s].user # {}
             /\ ctx'[s].bucket = ctx[s].bucket /\ ctx[s].bucket # {}
             /\ ctx'[s].quota = ctx[s].quota /\ ctx[s].quota # {}
             /\ getUser(s)' = NoErr /\ getBucket(s)' = NoErr
             /\ getBucketQuota(s)' = NoErr]_vars

\* one Validate, a Write that failed in its project resolution, and then a
\* Write that succeeded with no Validate in between
C11_Witness ==
    /\ budget = 0
    /\ nres[1] = 2
    /\ Did(1, "WriteStore")
    /\ ret[1].op = "Write" /\ ret[1].err = NoErr
    /\ InTrace(1, "writeAsset")

\* every step of a Write
WriteActions == {"WriteBegin", "WriteFind"} \cup WriteSteps

\* C12: the quota snapshot is read-only after Validate: no step of a Write
\* changes the cached snapshot or calls GetBucketQuota, and the quota handed
\* to the storage write routine is the value the session's Validate observed,
\* whatever the session has written since.
C12_QuotaSnapshotReadOnly ==
    [][\A s \in Sessions :
          (actor'.s = s /\ actor'.a \in WriteActions) =>
             /\ ctx'[s].quota = ctx[s].quota
             /\ ~InTrace(s, "GetBucketQuota")'
             /\ (actor'.a = "WriteStore" /\ InTrace(s, "writeAsset")') =>
                   /\ own[s].quota # {}
                   /\ wargs'[s].quota = own[s].quota]_vars

\* a Write is handed the snapshot 0 that Validate took of the empty bucket
\* while the bucket already holds the bytes of an earlier Write
C12_Witness ==
    /\ Did(1, "WriteStore")
    /\ InTrace(1, "writeAsset")
    /\ ret[1].err = NoErr
    /\ wargs[1].quota = {0}
    /\ \E b \in wargs[1].bucket : BucketQuota(b) > Len(wargs[1].text)

\* C13: Validate updates the session cache all-or-nothing: between calls the
\* identity, bucket and quota-snapshot keys of a session are all cached or
\* all unset.
C13_ValidateAllOrNothing ==
    \A s \in Sessions :
        pc[s] = "idle" =>
            \/ ctx[s].user = {} /\ ctx[s].bucket = {} /\ ctx[s].quota = {}
            \/ ctx[s].user # {} /\ ctx[s].bucket # {} /\ ctx[s].quota # {}

\* C14 (part): the project key changes only by caching a row that the
\* project store holds for the session's identity and the name that the
\* entry's path derives
C14_CachedFromStore ==
    \A s \in Sessions :
        ctx'[s].project # ctx[s].project =>
            /\ actor'.s = s /\ actor'.a \in {"WriteUpdate", "WriteRefetch"}
            /\ ctx[s].project = {}
            /\ ctx'[s].project = {ProjectRow(s)}
            /\ ProjectRow(s) \in projects'
            /\ \E u \in ctx[s].user : ProjectRow(s).UserID = u.ID
            /\ ProjectRow(s).Name = GetProjectName(loc[s].path)

\* C14: a Write whose UpdateProject, InsertProject or re-fetch fails returns
\* that error, leaves the project key unset and does not call the storage
\* write routine; the project key is set only to a project that a
\* successful FindProjectByName returned.
C14_FailedResolutionCachesNothing ==
    [][/\ C14_CachedFromStore
       /\ \A s \in Sessions :
            (actor'.s = s /\ actor'.a \in {"WriteUpdate", "WriteInsert", "WriteRefetch"}
                /\ pc'[s] = "idle") =>
               /\ ret'[s].op = "Write" /\ ret'[s].err = "DBError"
               /\ ctx'[s].project = {}
               /\ ~InTrace(s, "writeAsset")'
               /\ files' = files /\ wargs' = wargs]_vars

\* the re-fetch after a successful InsertProject failed: the row is in the
\* store, the Write returned the error and nothing is cached
C14_Witness ==
    /\ Did(1, "WriteRefetch")
    /\ ret[1].op = "Write" /\ ret[1].err = "DBError"
    /\ ctx[1].project = {}
    /\ projects # {}

\* C15: within one session InsertProject is called at most once for a
\* project name, also when Writes fail and further Writes follow.
C15_InsertAtMostOnce ==
    \A s \in Sessions : \A n \in ProjectNames : inserts[s][n] <= 1

\* C16: a project is inserted only if absent: while two sessions of one
\* identity make their first Writes, a session is about to call
\* InsertProject only when the project store does not hold the project.
C16_InsertOnlyIfAbsent ==
    \A s \in Sessions : \A t \in Sessions \ {s} :
        (/\ cred[s] = cred[t]
         /\ nres[s] = 1 /\ nres[t] = 1
         /\ loc[s].projectName = loc[t].projectName
         /\ pc[s] = "w_insert") =>
            ProjectRow(s) \notin projects

\* C17: once a project is cached in a session, a later Write makes no
\* FindProjectByName, InsertProject or UpdateProject call and leaves the
\* cached project as it is, whatever project name the entry's path derives,
\* and the storage write for the entry is still performed.
C17_CachedProjectIsFinal ==
    [][\A s \in Sessions :
          /\ ctx[s].project # {} => ctx'[s].project = ctx[s].project
          /\ (actor'.s = s /\ actor'.a = "WriteBegin" /\ ctx[s].project # {}
                /\ ret'[s].op # "Write") =>
                 /\ pc'[s] = "w_store"
                 /\ trace'[s] = <<"Write">>
          /\ (actor'.s = s /\ actor'.a = "WriteStore" /\ loc[s].hasProject) =>
                 /\ trace'[s] = <<"Write", "writeAsset">>
                 /\ wargs'[s].path = loc[s].path
                 /\ wargs'[s].text = loc[s].text
                 /\ projects' = projects]_vars

\* with project "a" cached, a Write of an entry below /b went to storage
C17_Witness ==
    /\ Did(1, "WriteStore")
    /\ trace[1] = <<"Write", "writeAsset">>
    /\ ret[1].err = NoErr
    /\ \E p \in ctx[1].project : p.Name # GetProjectName(ret[1].path)
    /\ files[The(wargs[1].bucket)][ret[1].path] = wargs[1].text

\* C18: a file write is atomic with respect to committed content: when the
\* read of the entry's content stream fails during a Write to a path that
\* holds committed content, Write returns an error, the committed content is
\* unchanged, and the storage write routine is not handed other bytes than
\* the entry's complete content.
C18_FailedReadKeepsCommitted ==
    [][\A s \in Sessions :
          (/\ actor'.s = s /\ actor'.a = "WriteStore"
           /\ loc[s].text # loc[s].content
           /\ files[loc[s].bucket][GetAssetFileName(loc[s].path)] # NoFile) =>
              /\ ret'[s].err # NoErr
              /\ files' = files
              /\ ~InTrace(s, "writeAsset")']_vars

\* C19: in a run of the listing handler Validate is called before List; after
\* a failed Validate List is not called and the error is the only output;
\* after a failed List the error is the only output and no listing text is
\* written; listing text is written only after Validate and List succeeded.
C19_ListingOrder ==
    \A s \in Sessions :
        /\ pc[s] = "m_list" =>
              /\ ret[s].op = "Validate" /\ ret[s].err = NoErr
              /\ trace[s][1] = "Validate"
              /\ ~InTrace(s, "List")
              /\ out[s] = <<>>
        /\ \A i \in 2..Len(trace[s]) :
              trace[s][i] = "List" =>
                  /\ trace[s][1] = "Validate"
                  /\ \E j \in 1..(i - 1) : trace[s][j] = "GetBucketQuota"
                  /\ validated[s]
        /\ out[s] # <<>> =>
              /\ Len(out[s]) = 1
              /\ pc[s] = "idle"
              /\ trace[s][1] = "Validate"
              /\ IF out[s][1].kind = "text"
                 THEN /\ ret[s].op = "List" /\ ret[s].err = NoErr
                      /\ InTrace(s, "List")
                      /\ out[s][1].text = ListingText(ret[s].files)
                 ELSE \/ /\ ret[s].op = "Validate" /\ ret[s].err # NoErr
                         /\ out[s][1].err = ret[s].err
                         /\ ~InTrace(s, "List")
                      \/ /\ ret[s].op = "List" /\ ret[s].err # NoErr
                         /\ out[s][1].err = ret[s].err
                      \/ /\ ret[s].op = "List" /\ ret[s].err = NoErr
                         /\ out[s][1].err = "WriteFailed"

\* the listing handler validated, listed an uploaded file and wrote the text
C19_Witness ==
    /\ Did(1, "LsList")
    /\ trace[1][1] = "Validate" /\ InTrace(1, "ListFiles")
    /\ ret[1].files # <<>>
    /\ out[1] = <<TextOut(ListingText(ret[1].files))>>

\* the positions of a Write past its identity and bucket checks
WritePcs == {"w_find", "w_update", "w_insert", "w_refetch", "w_store"}

\* C20: in every state a session whose identity key is cached has its bucket
\* and quota-snapshot keys cached too, so a Write past its identity check
\* never reads an unset bucket or quota key: a Write panics only on the
\* identity key, before any other step.
C20_IdentityImpliesBucketAndQuota ==
    \A s \in Sessions :
        /\ ctx[s].user # {} => (ctx[s].bucket # {} /\ ctx[s].quota # {})
        /\ pc[s] \in WritePcs =>
              /\ ctx[s].user # {} /\ ctx[s].bucket # {} /\ ctx[s].quota # {}
              /\ getBucket(s) = NoErr /\ getBucketQuota(s) = NoErr
        /\ (ret[s].op = "Write" /\ ret[s].err = Panic) =>
              /\ ctx[s].user = {}
              /\ trace[s] = <<"Write">>

\* the third command of a session, a Write, passed its identity check and
\* went to storage with the cached bucket and quota
C20_Witness ==
    /\ budget = 0
    /\ nres[1] = 1
    /\ Did(1, "WriteStore")
    /\ wargs[1].bucket = ctx[1].bucket /\ ctx[1].bucket # {}
    /\ wargs[1].quota = ctx[1].quota /\ ctx[1].quota # {}

====
